---- MODULE Spec2Model ----
(***************************************************************************)
(* A model of neware_api/neware.py: the NewareAPI client of the Neware      *)
(* battery testing system (XML commands over one TCP connection).          *)
(*                                                                         *)
(* Text is modelled as a sequence of one-character strings, so that the    *)
(* conversions of the program (type coercion, key formatting, framing)     *)
(* are computed character by character.  A Python dict whose order the     *)
(* program relies on is a sequence of [k, v] entries with distinct keys;   *)
(* a dict whose order is irrelevant is a function on its key set.          *)
(***************************************************************************)
EXTENDS Integers, Sequences, FiniteSets, TLC

\* ------------------------------------------------------------------ text

Digits == {"0", "1", "2", "3", "4", "5", "6", "7", "8", "9"}

Min(a, b) == IF a <= b THEN a ELSE b

\* s[i:] and s[:n] of Python, on sequences (1-based, i is the first kept index).
DropFirst(s, n) == SubSeq(s, n + 1, Len(s))

TakeFirst(s, n) == SubSeq(s, 1, n)

\* str.endswith
EndsWith(s, t) ==
    /\ Len(t) <= Len(s)
    /\ SubSeq(s, Len(s) - Len(t) + 1, Len(s)) = t

\* t in s, for strings
Contains(s, t) ==
    \E i \in 0..(Len(s) - Len(t)) : SubSeq(s, i + 1, i + Len(t)) = t

\* str.strip() over the blank character
RECURSIVE LStrip(_)
LStrip(s) == IF s # <<>> /\ Head(s) = " " THEN LStrip(Tail(s)) ELSE s

RECURSIVE RStrip(_)
RStrip(s) ==
    IF s # <<>> /\ s[Len(s)] = " " THEN RStrip(TakeFirst(s, Len(s) - 1)) ELSE s

Strip(s) == RStrip(LStrip(s))

\* The digit part of a Python numeric literal: digits, single underscores
\* allowed between two digits.
IsDigitPart(s) ==
    /\ s # <<>>
    /\ \A i \in 1..Len(s) : s[i] \in Digits \cup {"_"}
    /\ s[1] \in Digits
    /\ s[Len(s)] \in Digits
    /\ \A i \in 1..(Len(s) - 1) : ~(s[i] = "_" /\ s[i + 1] = "_")

RECURSIVE DropUnderscores(_)
DropUnderscores(s) ==
    IF s = <<>> THEN <<>>
    ELSE IF Head(s) = "_" THEN DropUnderscores(Tail(s))
    ELSE <<Head(s)>> \o DropUnderscores(Tail(s))

RECURSIVE DropLeadingZeros(_)
DropLeadingZeros(s) ==
    IF Len(s) > 1 /\ Head(s) = "0" THEN DropLeadingZeros(Tail(s)) ELSE s

RECURSIVE DropTrailingZeros(_)
DropTrailingZeros(s) ==
    IF Len(s) > 1 /\ s[Len(s)] = "0"
    THEN DropTrailingZeros(TakeFirst(s, Len(s) - 1))
    ELSE s

HasSign(s) == s # <<>> /\ Head(s) \in {"+", "-"}

Unsigned(s) == IF HasSign(s) THEN Tail(s) ELSE s

\* ---------------------------------------------------------- Python values
\* A coerced value: its Python type and the text str() gives for it.

PyNone == [t |-> "none", v |-> <<"N", "o", "n", "e">>]

PyStrVal(s) == [t |-> "str", v |-> s]

\* int(s): the literal grammar, and the value in canonical decimal text.
IntLiteral(s) == IsDigitPart(Unsigned(Strip(s)))

IntText(s) ==
    LET u == Strip(s)
        d == DropLeadingZeros(DropUnderscores(Unsigned(u)))
    IN  IF HasSign(u) /\ Head(u) = "-" /\ d # <<"0">> THEN <<"-">> \o d ELSE d

\* float(s), for decimal literals without exponent: [sign] digits [. [digits]]
\* or [sign] . digits.  (inf, nan and exponents need letters that no text of
\* the model contains.)
IndexOfDot(s) == IF Contains(s, <<".">>)
                 THEN CHOOSE i \in 1..Len(s) :
                        s[i] = "." /\ \A j \in 1..(i - 1) : s[j] # "."
                 ELSE 0

FloatLiteral(s) ==
    LET u == Unsigned(Strip(s))
        p == IndexOfDot(u)
        ip == IF p = 0 THEN u ELSE TakeFirst(u, p - 1)
        fp == IF p = 0 THEN <<>> ELSE DropFirst(u, p)
    IN  /\ ip # <<>> \/ fp # <<>>
        /\ ip = <<>> \/ IsDigitPart(ip)
        /\ fp = <<>> \/ IsDigitPart(fp)

\* repr() of the float a literal denotes (plain notation: the literals of the
\* model are short enough to stay within it).
FloatText(s) ==
    LET t == Strip(s)
        u == Unsigned(t)
        p == IndexOfDot(u)
        ip == IF p = 0 THEN u ELSE TakeFirst(u, p - 1)
        fp == IF p = 0 THEN <<>> ELSE DropFirst(u, p)
        id == IF ip = <<>> THEN <<"0">> ELSE DropLeadingZeros(DropUnderscores(ip))
        fd == IF fp = <<>> THEN <<"0">> ELSE DropTrailingZeros(DropUnderscores(fp))
        sg == IF HasSign(t) /\ Head(t) = "-" THEN <<"-">> ELSE <<>>
    IN  sg \o id \o <<".">> \o fd

\* _auto_convert_type(value)
MutAutoConvertRaises(value) ==
    IF value = <<"-", "-">> THEN PyNone
    ELSE IF Contains(value, <<".">>)
         THEN IF FloatLiteral(value)
              THEN [t |-> "float", v |-> FloatText(value)]
              ELSE [t |-> "ValueError", v |-> value]
         ELSE IF IntLiteral(value)
              THEN [t |-> "int", v |-> IntText(value)]
              ELSE [t |-> "ValueError", v |-> value]

auto_convert_type(value) ==
    IF value = <<"-", "-">> THEN PyNone
    ELSE IF Contains(value, <<".">>)
         THEN IF FloatLiteral(value)
              THEN [t |-> "float", v |-> FloatText(value)]
              ELSE PyStrVal(value)
         ELSE IF IntLiteral(value)
              THEN [t |-> "int", v |-> IntText(value)]
              ELSE PyStrVal(value)

\* str(x), as an f-string formats a field
PyStr(x) == x.v

\* ------------------------------------------------------------------ dicts
\* An insertion-ordered dict: a sequence of entries [k, v] with distinct keys.

Keys(m) == {m[i].k : i \in 1..Len(m)}

HasKey(m, k) == \E i \in 1..Len(m) : m[i].k = k

Get(m, k) == m[CHOOSE i \in 1..Len(m) : m[i].k = k].v

\* m[k] = v: an existing key keeps its place and takes the new value.
DictPut(m, k, v) ==
    IF HasKey(m, k)
    THEN [i \in 1..Len(m) |-> IF m[i].k = k THEN [k |-> k, v |-> v] ELSE m[i]]
    ELSE Append(m, [k |-> k, v |-> v])

\* {**a, **b}: the keys of both, b's value where both have the key.
MutMergeRecordWins(a, b) == a @@ b

Merge(a, b) == b @@ a

\* --------------------------------------------------------- record decoder
\* A response document as ElementTree parses it: wf says whether the text is
\* well-formed XML; lists maps the tag of each container child of the root
\* to its child elements; an element is [tag, attrib, text] with raw texts
\* (text is empty when the element has none).

\* el.attrib, with el.text stored under el.tag when the text is not empty
ElementDict(el) ==
    IF el.text # <<>> THEN (el.tag :> el.text) @@ el.attrib ELSE el.attrib

\* _xml_to_records(xml_string, list_name)
xml_to_records(doc, list_name) ==
    IF ~doc.wf THEN [err |-> "ParseError", recs |-> <<>>]
    ELSE IF list_name \notin DOMAIN doc.lists
         THEN [err |-> "TypeError", recs |-> <<>>]
         ELSE [err |-> "none",
               recs |-> [i \in 1..Len(doc.lists[list_name]) |->
                           LET d == ElementDict(doc.lists[list_name][i])
                           IN  [f \in DOMAIN d |-> auto_convert_type(d[f])]]]

\* _lod_to_dol(ld)
MutLodPad(ld) ==
    IF ld = <<>> THEN [err |-> "IndexError", table |-> <<>>]
    ELSE [err |-> "none",
          table |-> [f \in DOMAIN ld[1] |->
                       [i \in 1..Len(ld) |->
                          IF f \in DOMAIN ld[i] THEN ld[i][f] ELSE PyNone]]]

lod_to_dol(ld) ==
    IF ld = <<>> THEN [err |-> "IndexError", table |-> <<>>]
    ELSE IF \E i \in 1..Len(ld) : ~(DOMAIN ld[1] \subseteq DOMAIN ld[i])
         THEN [err |-> "KeyError", table |-> <<>>]
         ELSE [err |-> "none",
               table |-> [f \in DOMAIN ld[1] |->
                            [i \in 1..Len(ld) |-> ld[i][f]]]]

\* ------------------------------------------------------------ channel map

\* f"{d['devid']}-{d['subdevid']}-{d['Channelid']}"
MutChannelKeySwapped(d) ==
    PyStr(d["devid"]) \o <<"-">> \o PyStr(d["Channelid"]) \o <<"-">>
        \o PyStr(d["subdevid"])

ChannelKey(d) ==
    PyStr(d["devid"]) \o <<"-">> \o PyStr(d["subdevid"]) \o <<"-">>
        \o PyStr(d["Channelid"])

KeyFields == {"devid", "subdevid", "Channelid"}

\* {key(d): d for d in devices}, the entries added to the dict start
RECURSIVE DictOfDevices(_, _)
DictOfDevices(start, devices) ==
    IF devices = <<>> THEN start
    ELSE DictOfDevices(DictPut(start, ChannelKey(Head(devices)), Head(devices)),
                       Tail(devices))

\* --------------------------------------------------------------- commands
\* A command body is kept structured: the <cmd> name and the attributes the
\* f-strings of the program format into it.

StopFields == {"ip", "devtype", "devid", "subdevid", "Channelid"}

DownloadFields == {"devtype", "devid", "subdevid", "Channelid"}

\* ip= devtype= devid= subdevid= chlid= of a start, stop, status or inquire
\* element
Address(pip) ==
    [ip |-> PyStr(pip["ip"]), devtype |-> PyStr(pip["devtype"]),
     devid |-> PyStr(pip["devid"]), subdevid |-> PyStr(pip["subdevid"]),
     chlid |-> PyStr(pip["Channelid"])]

ConnectCmd == [cmd |-> "connect", username |-> "admin", password |-> "neware",
               type |-> "bfgs"]

DevInfoCmd == [cmd |-> "getdevinfo"]

StartCmd(pip, sampleid, payload, save_location) ==
    [cmd |-> "start", count |-> 1, entries |-> <<Address(pip)>>,
     barcode |-> sampleid, payload |-> payload, backupdir |-> save_location]

\* header + one element per given pipeline + footer
MutBatchReversed(name, count, pips) ==
    [cmd |-> name, count |-> count,
     entries |-> [i \in 1..Len(pips) |-> Address(pips[Len(pips) + 1 - i])]]

BatchCmd(name, count, pips) ==
    [cmd |-> name, count |-> count,
     entries |-> [i \in 1..Len(pips) |-> Address(pips[i])]]

chunk_size == 1000

DownloadCmd(pip, have) ==
    [cmd |-> "download", devtype |-> PyStr(pip["devtype"]),
     devid |-> PyStr(pip["devid"]), subdevid |-> PyStr(pip["subdevid"]),
     chlid |-> PyStr(pip["Channelid"]), auxid |-> 0, testid |-> 0,
     startpos |-> have + 1, count |-> chunk_size]

\* ------------------------------------------------------------ environment
\* What the instrument may answer and what a caller may pass, drawn from small
\* sets.  The bounds:

MaxDevs == 2      \* channels in one enumeration response

MaxRecs == 2      \* records in one status / inquire response

MaxIds == 2       \* pipeline identifiers in one batch

MaxPages == 3     \* the stored data of a channel fills fewer than MaxPages pages

MaxRequests == 5  \* download commands followed within one download_data

\* All sequences over S of length 0..n
SeqsUpTo(S, n) == UNION {[1..k -> S] : k \in 0..n}

Ip1 == <<"1", "0", ".", "0", ".", "0", ".", "5">>

Ip2 == <<"1", "0", ".", "0", ".", "0", ".", "6">>

DevType == <<"3", "4">>

DevElem(ip, devid, subdevid, chl) ==
    [tag |-> "channel",
     attrib |-> [ip |-> ip, devtype |-> DevType, devid |-> devid,
                 subdevid |-> subdevid, Channelid |-> chl],
     text |-> <<>>]

\* 13-1-5 and 13-5-5; 013-1-5 on another ip (the same key once coerced); and an
\* element without subdevid.
DevElems ==
    {DevElem(Ip1, <<"1", "3">>, <<"1">>, <<"5">>),
     DevElem(Ip1, <<"1", "3">>, <<"5">>, <<"5">>),
     DevElem(Ip2, <<"0", "1", "3">>, <<"1">>, <<"5">>),
     [tag |-> "channel",
      attrib |-> [ip |-> Ip1, devtype |-> DevType, devid |-> <<"1", "3">>,
                  Channelid |-> <<"5">>],
      text |-> <<>>]}

Malformed == [wf |-> FALSE, lists |-> <<>>]

NoContainer == [wf |-> TRUE, lists |-> <<>>]

ListDoc(name, elems) == [wf |-> TRUE, lists |-> (name :> elems)]

DevInfoDocs ==
    {Malformed, NoContainer}
        \cup {ListDoc("middle", es) : es \in SeqsUpTo(DevElems, MaxDevs)}

\* Status records: the instrument reports subdevid 1 whatever was asked.
StatusElems ==
    {[tag |-> "status",
      attrib |-> [ip |-> Ip1, devtype |-> DevType, devid |-> <<"1", "3">>,
                  subdevid |-> <<"1">>, chlid |-> <<"5">>],
      text |-> <<"w", "o", "r", "k">>],
     [tag |-> "status",
      attrib |-> [devid |-> <<"1", "3">>, subdevid |-> <<"1">>,
                  chlid |-> <<"5">>, volt |-> <<"3", ".", "7", "0">>],
      text |-> <<"-", "-">>]}

StatusDocs ==
    {Malformed, NoContainer}
        \cup {ListDoc("list", es) : es \in SeqsUpTo(StatusElems, MaxRecs)}

\* The replies to connect, start and stop, which the client does not decode.
AckTrue == ListDoc("list", <<[tag |-> "result", attrib |-> <<>>,
                              text |-> <<"o", "k">>]>>)

AckFalse == ListDoc("list", <<[tag |-> "result", attrib |-> <<>>,
                               text |-> <<"f", "a", "l", "s", "e">>]>>)

AckDocs == {AckTrue, AckFalse}

\* The stored data of a channel: record i carries its sequence number.
DigitChar == <<"0", "1", "2", "3", "4", "5", "6", "7", "8", "9">>

RECURSIVE IntToText(_)
IntToText(i) ==
    IF i < 10 THEN <<DigitChar[i + 1]>>
    ELSE IntToText(i \div 10) \o <<DigitChar[(i % 10) + 1]>>

DataElem(i) ==
    [tag |-> "data",
     attrib |-> [seq |-> IntToText(i)],
     text |-> <<>>]

\* The page the instrument serves for startpos, count out of n stored records.
PageDoc(n, startpos, count) ==
    LET k == IF n < startpos THEN 0 ELSE Min(count, n - startpos + 1)
    IN  ListDoc("list", [j \in 1..k |-> DataElem(startpos + j - 1)])

DataSizes ==
    {p * chunk_size + r : p \in 0..(MaxPages - 1), r \in {0, chunk_size \div 2}}

\* Pipeline identifiers a caller passes: 13-1-5, 13-5-5, and 9-9-9, which no
\* enumeration holds.
PipelineIds ==
    {<<"1", "3", "-", "1", "-", "5">>, <<"1", "3", "-", "5", "-", "5">>,
     <<"9", "-", "9", "-", "9">>}

\* pipeline_ids of get_status / inquire_channel: None, a string, a list.
QueryArgs ==
    {[kind |-> "none", ids |-> <<>>]}
        \cup {[kind |-> "str", ids |-> <<p>>] : p \in PipelineIds}
        \cup {[kind |-> "list", ids |-> l] : l \in SeqsUpTo(PipelineIds, MaxIds)}

\* pipelines of stop_job: a string, or a list or tuple.
StopArgs ==
    {[kind |-> "str", ids |-> <<p>>] : p \in PipelineIds}
        \cup {[kind |-> "list", ids |-> l] : l \in SeqsUpTo(PipelineIds, MaxIds)}

\* ------------------------------------------------------------------ state

VARIABLES
    sock,         \* neware_socket: "new", "connected" or "closed"
    channel_map,  \* self.channel_map
    pc,           \* where the caller is: "idle", inside connect ("login",
                  \* "refresh"), inside download_data ("download"), at the
                  \* end of an operation ("done"), "hung" in one for ever,
                  \* leaving a with block by an exception ("unwind"), or
                  \* "deleted" with the object
    data,         \* download_data: the records accumulated so far
    pip,          \* download_data: the resolved descriptor
    nrec,         \* the number of records the instrument holds for the
                  \* channel of the download_data in hand (0 otherwise)
    sent,         \* the commands written to the socket by the current operation
    result,       \* how the last operation ended: [op, err, val]
    req,          \* the argument of the current operation
    resp,         \* the last response document read
    login,        \* the fate of the login command on this connection
    firstCmd,     \* the first command written on this connection
    oldMap,       \* channel_map as the operation that has just ended found it
    oldSock,      \* neware_socket as the operation that has just ended found it
    scope,        \* the with statement on the client: "out" of it, "entering"
                  \* (inside __enter__), "in" its body, or "exited"
    cpc,          \* command(): "start", "loop", "returned" or "error"
    body,         \* the response body the instrument answers with
    tosend,       \* the bytes of the responses not yet delivered
    peer,         \* the instrument's end: "open", "closed" or "reset"
    received,     \* command(): the text accumulated
    cresult,      \* command(): the value returned, or the error raised
    sawEof,       \* a recv() has returned b"" (the peer had closed)
    ncmd,         \* the calls of command() made so far
    stale,        \* the bytes of earlier responses still unread when the
                  \* last command was written
    fnName,       \* the pure function called ("none" where none is)
    fnDone,       \* it has returned or raised
    fnArg,        \* the argument of _lod_to_dol
    fnText,       \* the argument of _auto_convert_type
    fnRet,        \* what it returned
    tpc,          \* two callers in command() at once: where each one is
    trecv,        \* each caller's received
    tret,         \* each caller's return value
    wire,         \* the bytes of the instrument's replies not yet read
    overlap       \* a command was written while the other caller was reading

cliVars == <<sock, channel_map, pc, data, pip, nrec, sent, result, req, resp,
             login, firstCmd, oldMap, oldSock, scope>>

cmdVars == <<cpc, body, tosend, peer, received, cresult, sawEof, ncmd, stale>>

fnVars == <<fnName, fnDone, fnArg, fnText, fnRet>>

conVars == <<tpc, trecv, tret, wire, overlap>>

vars == <<cliVars, cmdVars, fnVars, conVars>>

otherThanCli == <<cmdVars, fnVars, conVars>>

otherThanCmd == <<cliVars, fnVars, conVars>>

NoDoc == Malformed

NoVal == <<>>

\* ------------------------------------------------------- one round trip
\* command(cmd) as the operations see it: the reply read up to the
\* terminator, an error raised by the socket or by decode(), or a read loop
\* that never ends.  Nothing can be written to a socket that is not connected.
ReadFailures == {"OSError", "UnicodeDecodeError", "hang"}

RoundTrips(docs) ==
    IF sock # "connected"
    THEN {[err |-> "OSError", wrote |-> FALSE, doc |-> NoDoc]}
    ELSE {[err |-> "none", wrote |-> TRUE, doc |-> d] : d \in docs}
            \cup {[err |-> e, wrote |-> TRUE, doc |-> NoDoc] : e \in ReadFailures}

\* The operation ends (or never returns): its outcome, and what it wrote.
Ends(op, arg, err, val, cmds, doc) ==
    /\ result' = [op |-> op, err |-> err, val |-> val]
    /\ pc' = IF err = "hang" THEN "hung" ELSE "done"
    /\ req' = arg
    /\ sent' = cmds
    /\ resp' = doc
    /\ nrec' = IF op = "download_data" THEN nrec ELSE 0
    /\ oldMap' = channel_map
    /\ oldSock' = sock
    /\ firstCmd' = IF firstCmd = "none" /\ cmds # <<>> THEN cmds[1].cmd
                   ELSE firstCmd

\* A multi-step operation begins: nothing written, nothing returned yet.
Begins(op, arg) ==
    /\ result' = [op |-> op, err |-> "running", val |-> NoVal]
    /\ req' = arg
    /\ sent' = <<>>
    /\ resp' = NoDoc
    /\ nrec' = 0
    /\ UNCHANGED <<firstCmd, oldMap, oldSock>>

\* An operation that is a lookup, one command and no decoding: r is the
\* resolution [err, cmd].
OneCommand(op, arg, r, docs) ==
    IF r.err # "none"
    THEN Ends(op, arg, r.err, NoVal, <<>>, NoDoc)
    ELSE \E o \in RoundTrips(docs) :
            Ends(op, arg, o.err, IF o.err = "none" THEN o.doc ELSE NoVal,
                 IF o.wrote THEN <<r.cmd>> ELSE <<>>, o.doc)

NoCmd == [cmd |-> "none"]

\* ------------------------------------------------------------- resolution

\* pip = self.channel_map[pipeline], then the fields the command formats
Resolve(m, id, fields) ==
    IF ~HasKey(m, id) THEN [err |-> "KeyError", pips |-> <<>>]
    ELSE IF ~(fields \subseteq DOMAIN Get(m, id))
         THEN [err |-> "KeyError", pips |-> <<>>]
         ELSE [err |-> "none", pips |-> <<Get(m, id)>>]

\* for pipeline in pipelines: pip = self.channel_map[pipeline] ...
MutResolveKnown(m, ids) ==
    LET known == SelectSeq(ids, LAMBDA id : Resolve(m, id, StopFields).err = "none")
    IN  [err |-> "none", pips |-> [i \in 1..Len(known) |-> Get(m, known[i])]]

ResolveEach(m, ids) ==
    IF \E i \in 1..Len(ids) : Resolve(m, ids[i], StopFields).err # "none"
    THEN [err |-> "KeyError", pips |-> <<>>]
    ELSE [err |-> "none", pips |-> [i \in 1..Len(ids) |-> Get(m, ids[i])]]

\* {p: self.channel_map[p] for p in pipeline_ids}
RECURSIVE SubMap(_, _, _)
SubMap(start, m, ids) ==
    IF ids = <<>> THEN start
    ELSE SubMap(DictPut(start, Head(ids), Get(m, Head(ids))), m, Tail(ids))

\* "Get the (subset) of the channel map" of get_status and inquire_channel,
\* and the fields the command formats
Pipelines(m, arg) ==
    LET missing == arg.kind # "none"
                     /\ \E i \in 1..Len(arg.ids) : ~HasKey(m, arg.ids[i])
        chosen == IF arg.kind = "none" THEN m ELSE SubMap(<<>>, m, arg.ids)
    IN  IF missing THEN [err |-> "KeyError", pips |-> <<>>]
        ELSE IF \E i \in 1..Len(chosen) : ~(StopFields \subseteq DOMAIN chosen[i].v)
             THEN [err |-> "KeyError", pips |-> <<>>]
             ELSE [err |-> "none", pips |-> chosen]

\* {pipeline_id: {**record, **pipeline_dict} for ... in zip(..., strict=True)}
MutZipTruncate(pipelines, records) ==
    [err |-> "none",
     val |-> [i \in 1..Min(Len(pipelines), Len(records)) |->
                [k |-> pipelines[i].k, v |-> Merge(records[i], pipelines[i].v)]]]

ZipMerge(pipelines, records) ==
    IF Len(pipelines) # Len(records) THEN [err |-> "ValueError", val |-> NoVal]
    ELSE [err |-> "none",
          val |-> [i \in 1..Len(pipelines) |->
                     [k |-> pipelines[i].k,
                      v |-> Merge(records[i], pipelines[i].v)]]]

\* ------------------------------------------------------------- operations

NoArg == [kind |-> "none", ids |-> <<>>]

IdArg(id) == [kind |-> "str", ids |-> <<id>>]

SampleId == <<"s", "1">>

PayloadPath == <<"p", ".", "x", "m", "l">>

SaveLocation == <<"C", ":">>

\* self.channel_map = {...}: the map assigned by update_channel_map
MutUpdateInPlace(devices) == DictOfDevices(channel_map, devices)

UpdatedChannelMap(devices) == DictOfDevices(<<>>, devices)

\* The variables of command() byte by byte, of the pure functions and of the
\* two concurrent callers, where a specification does not follow them.
CmdIdle ==
    /\ cpc = "start"
    /\ body = <<>>
    /\ tosend = <<>>
    /\ peer = "open"
    /\ received = <<>>
    /\ cresult = <<>>
    /\ sawEof = FALSE
    /\ ncmd = 0
    /\ stale = 0

FnIdle ==
    /\ fnName = "none"
    /\ fnDone = FALSE
    /\ fnArg = <<>>
    /\ fnText = <<>>
    /\ fnRet = <<>>

ConIdle ==
    /\ tpc = <<>>
    /\ trecv = <<>>
    /\ tret = <<>>
    /\ wire = <<>>
    /\ overlap = FALSE

\* __init__
Init ==
    /\ sock = "new"
    /\ channel_map = <<>>
    /\ pc = "idle"
    /\ data = <<>>
    /\ pip = <<>>
    /\ nrec = 0
    /\ sent = <<>>
    /\ result = [op |-> "init", err |-> "none", val |-> NoVal]
    /\ req = NoArg
    /\ resp = NoDoc
    /\ login = "none"
    /\ firstCmd = "none"
    /\ oldMap = <<>>
    /\ oldSock = "new"
    /\ scope = "out"
    /\ CmdIdle
    /\ FnIdle
    /\ ConIdle

\* The socket made by __init__ is the only one the client ever has, and a
\* socket connects once: connect() on a connected or a closed one raises.
MutFreshSocket(s) == s # "connected"

CanConnect(s) == s = "new"

\* connect(), line 97: neware_socket.connect, which the network may refuse.
SocketConnect ==
    /\ pc = "idle"
    /\ \E ok \in BOOLEAN :
          IF CanConnect(sock) /\ ok
          THEN /\ sock' = "connected"
               /\ pc' = "login"
               /\ Begins("connect", NoArg)
          ELSE /\ Ends("connect", NoArg, "OSError", NoVal, <<>>, NoDoc)
               /\ UNCHANGED sock
    /\ UNCHANGED <<channel_map, data, pip, login, otherThanCli>>

\* connect(), called by the caller
Connect ==
    /\ SocketConnect
    /\ UNCHANGED scope

\* __enter__: the with statement calls connect(); the body is entered when it
\* returns, and is not when it raises.
Enter ==
    /\ scope \in {"out", "exited"}
    /\ SocketConnect
    /\ scope' = "entering"

\* connect(), lines 98-99: the login command; its reply is not looked at.
ConnectLogin ==
    /\ pc = "login"
    /\ \E o \in RoundTrips(AckDocs) :
          /\ login' = IF o.err # "none" THEN "failed"
                      ELSE IF o.doc = AckTrue THEN "accepted" ELSE "rejected"
          /\ IF o.err = "none"
             THEN /\ pc' = "refresh"
                  /\ sent' = <<ConnectCmd>>
                  /\ resp' = o.doc
                  /\ firstCmd' = IF firstCmd = "none" THEN "connect" ELSE firstCmd
                  /\ UNCHANGED <<result, req, nrec, oldMap, oldSock>>
             ELSE Ends("connect", NoArg, o.err, NoVal, <<ConnectCmd>>, NoDoc)
    /\ UNCHANGED <<sock, channel_map, data, pip, scope, otherThanCli>>

\* update_channel_map(): device_info(), then the assignment of the new map.
\* before are the commands the operation wrote already.
Refresh(op, before) ==
    \E o \in RoundTrips(DevInfoDocs) :
        LET cmds == IF o.wrote THEN Append(before, DevInfoCmd) ELSE before
            r == xml_to_records(o.doc, "middle")
        IN  IF o.err # "none"
            THEN /\ Ends(op, NoArg, o.err, NoVal, cmds, o.doc)
                 /\ UNCHANGED channel_map
            ELSE IF r.err # "none"
            THEN /\ Ends(op, NoArg, r.err, NoVal, cmds, o.doc)
                 /\ UNCHANGED channel_map
            ELSE IF \E i \in 1..Len(r.recs) : ~(KeyFields \subseteq DOMAIN r.recs[i])
            THEN /\ Ends(op, NoArg, "KeyError", NoVal, cmds, o.doc)
                 /\ UNCHANGED channel_map
            ELSE /\ channel_map' = UpdatedChannelMap(r.recs)
                 /\ Ends(op, NoArg, "none", NoVal, cmds, o.doc)

\* connect(), line 100
ConnectRefresh ==
    /\ pc = "refresh"
    /\ Refresh("connect", sent)
    /\ UNCHANGED <<sock, data, pip, login, scope, otherThanCli>>

\* update_channel_map(), called by the caller
UpdateChannelMap ==
    /\ pc = "idle"
    /\ Refresh("update_channel_map", <<>>)
    /\ UNCHANGED <<sock, data, pip, login, scope, otherThanCli>>

\* device_info()
DeviceInfo ==
    /\ pc = "idle"
    /\ \E o \in RoundTrips(DevInfoDocs) :
          LET cmds == IF o.wrote THEN <<DevInfoCmd>> ELSE <<>>
              r == xml_to_records(o.doc, "middle")
          IN  IF o.err # "none"
              THEN Ends("device_info", NoArg, o.err, NoVal, cmds, o.doc)
              ELSE Ends("device_info", NoArg, r.err, r.recs, cmds, o.doc)
    /\ UNCHANGED <<sock, channel_map, data, pip, login, scope, otherThanCli>>

\* if self.neware_socket: self.neware_socket.close().  A socket object is
\* true whatever its state, and close() of a closed socket does nothing.
MutCloseOnce(s) ==
    IF s = "closed" THEN [err |-> "OSError", sock |-> s]
    ELSE [err |-> "none", sock |-> "closed"]

SocketClose(s) == [err |-> "none", sock |-> "closed"]

\* disconnect()
Disconnect ==
    /\ pc = "idle"
    /\ sock' = SocketClose(sock).sock
    /\ Ends("disconnect", NoArg, SocketClose(sock).err, NoVal, <<>>, NoDoc)
    /\ UNCHANGED <<channel_map, data, pip, login, scope, otherThanCli>>

\* How the body of the with statement was left: by an exception or not.
ExitArg(exc) == [kind |-> IF exc THEN "exc" ELSE "none", ids |-> <<>>]

\* __exit__(exc_type, exc_value, traceback): disconnect(), whatever the
\* arguments say.
MutExitOnSuccess(exc, s) == IF exc THEN s ELSE SocketClose(s).sock

ExitSock(exc, s) == SocketClose(s).sock

\* __exit__: the body has ended, or an exception is leaving it.
Exit ==
    /\ scope = "in"
    /\ pc \in {"idle", "unwind"}
    /\ sock' = ExitSock(pc = "unwind", sock)
    /\ scope' = "exited"
    /\ Ends("__exit__", ExitArg(pc = "unwind"), SocketClose(sock).err, NoVal,
            <<>>, NoDoc)
    /\ UNCHANGED <<channel_map, data, pip, login, otherThanCli>>

\* __del__: disconnect(), when the object is collected outside any call.
Del ==
    /\ pc = "idle"
    /\ scope \in {"out", "exited"}
    /\ sock' = SocketClose(sock).sock
    /\ result' = [op |-> "__del__", err |-> SocketClose(sock).err, val |-> NoVal]
    /\ pc' = "deleted"
    /\ oldSock' = sock
    /\ oldMap' = channel_map
    /\ UNCHANGED <<channel_map, data, pip, nrec, sent, req, resp, login,
                   firstCmd, scope, otherThanCli>>

\* start_job(pipeline, sampleid, payload_xml_path, save_location)
StartJob ==
    /\ pc = "idle"
    /\ \E id \in PipelineIds :
          LET r == Resolve(channel_map, id, StopFields)
          IN  OneCommand("start_job", IdArg(id),
                         IF r.err # "none" THEN [err |-> r.err, cmd |-> NoCmd]
                         ELSE [err |-> "none",
                               cmd |-> StartCmd(r.pips[1], SampleId, PayloadPath,
                                                SaveLocation)],
                         AckDocs)
    /\ UNCHANGED <<sock, channel_map, data, pip, login, scope, otherThanCli>>

\* stop_job(pipelines)
StopJob ==
    /\ pc = "idle"
    /\ \E arg \in StopArgs :
          LET r == ResolveEach(channel_map, arg.ids)
          IN  OneCommand("stop_job", arg,
                         IF r.err # "none" THEN [err |-> r.err, cmd |-> NoCmd]
                         ELSE [err |-> "none",
                               cmd |-> BatchCmd("stop", Len(arg.ids), r.pips)],
                         AckDocs)
    /\ UNCHANGED <<sock, channel_map, data, pip, login, scope, otherThanCli>>

\* get_status and inquire_channel: resolve, one batched command, decode, merge
Query(op, name) ==
    \E arg \in QueryArgs :
        LET p == Pipelines(channel_map, arg)
        IN  IF p.err # "none"
            THEN Ends(op, arg, p.err, NoVal, <<>>, NoDoc)
            ELSE \E o \in RoundTrips(StatusDocs) :
                   LET cmd == BatchCmd(name, Len(p.pips),
                                       [i \in 1..Len(p.pips) |-> p.pips[i].v])
                       cmds == IF o.wrote THEN <<cmd>> ELSE <<>>
                       r == xml_to_records(o.doc, "list")
                       z == ZipMerge(p.pips, r.recs)
                   IN  IF o.err # "none"
                       THEN Ends(op, arg, o.err, NoVal, cmds, o.doc)
                       ELSE IF r.err # "none"
                       THEN Ends(op, arg, r.err, NoVal, cmds, o.doc)
                       ELSE Ends(op, arg, z.err, z.val, cmds, o.doc)

\* {**record, **pipeline_dict} makes a new dict for every result: the
\* descriptors of the map m are read, and stay as they are.
MutMergeIntoDescriptor(m, res) ==
    IF res.err # "none" THEN m
    ELSE [i \in 1..Len(m) |->
            IF \E n \in 1..Len(res.val) : res.val[n].k = m[i].k
            THEN [k |-> m[i].k,
                  v |-> res.val[CHOOSE n \in 1..Len(res.val) :
                                   res.val[n].k = m[i].k].v]
            ELSE m[i]]

MapAfterMerge(m, res) == m

\* get_status(pipeline_ids)
GetStatus ==
    /\ pc = "idle"
    /\ Query("get_status", "getchlstatus")
    /\ channel_map' = MapAfterMerge(channel_map, result')
    /\ UNCHANGED <<sock, data, pip, login, scope, otherThanCli>>

\* inquire_channel(pipeline_ids)
InquireChannel ==
    /\ pc = "idle"
    /\ Query("inquire_channel", "inquire")
    /\ channel_map' = MapAfterMerge(channel_map, result')
    /\ UNCHANGED <<sock, data, pip, login, scope, otherThanCli>>

\* download_data(pipeline), lines 279-281: the lookup.  The instrument holds
\* some number of records for the channel.
DownloadData ==
    /\ pc = "idle"
    /\ \E id \in PipelineIds :
          LET r == Resolve(channel_map, id, DownloadFields)
          IN  IF r.err # "none"
              THEN /\ Ends("download_data", IdArg(id), r.err, NoVal, <<>>, NoDoc)
                   /\ UNCHANGED <<data, pip>>
              ELSE /\ \E n \in DataSizes : nrec' = n
                   /\ pip' = r.pips[1]
                   /\ data' = <<>>
                   /\ pc' = "download"
                   /\ result' = [op |-> "download_data", err |-> "running",
                                 val |-> NoVal]
                   /\ req' = IdArg(id)
                   /\ sent' = <<>>
                   /\ resp' = NoDoc
                   /\ UNCHANGED <<firstCmd, oldMap, oldSock>>
    /\ UNCHANGED <<sock, channel_map, login, scope, otherThanCli>>

\* download_data, lines 282-290: one turn of the loop
DownloadPage ==
    /\ pc = "download"
    /\ Len(data) % chunk_size = 0
    /\ Len(sent) < MaxRequests
    /\ \E o \in RoundTrips({PageDoc(nrec, Len(data) + 1, chunk_size), Malformed}) :
          LET cmds == IF o.wrote THEN Append(sent, DownloadCmd(pip, Len(data)))
                      ELSE sent
              r == xml_to_records(o.doc, "list")
          IN  IF o.err # "none"
              THEN /\ Ends("download_data", req, o.err, NoVal, cmds, o.doc)
                   /\ data' = <<>>
                   /\ pip' = <<>>
              ELSE IF r.err # "none"
              THEN /\ Ends("download_data", req, r.err, NoVal, cmds, o.doc)
                   /\ data' = <<>>
                   /\ pip' = <<>>
              ELSE /\ data' = data \o r.recs
                   /\ sent' = cmds
                   /\ resp' = o.doc
                   /\ firstCmd' = IF firstCmd = "none" THEN "download" ELSE firstCmd
                   /\ UNCHANGED <<pc, pip, result, req, nrec, oldMap, oldSock>>
    /\ UNCHANGED <<sock, channel_map, login, scope, otherThanCli>>

\* download_data, lines 282 and 292: the loop ends, the table is returned
DownloadReturn ==
    /\ pc = "download"
    /\ Len(data) % chunk_size # 0
    /\ LET t == lod_to_dol(data)
       IN  Ends("download_data", req, t.err, t.table, sent, resp)
    /\ data' = <<>>
    /\ pip' = <<>>
    /\ UNCHANGED <<sock, channel_map, login, scope, otherThanCli>>

NoResult == [op |-> "init", err |-> "none", val |-> NoVal]

\* The call has returned or raised: the caller is free to make the next one.
\* When __enter__ returned the body of the with statement begins, when it
\* raised the statement is over; an exception raised in the body is caught
\* there or leaves the body.
Return ==
    /\ pc = "done"
    /\ IF scope = "entering"
       THEN /\ scope' = IF result.err = "none" THEN "in" ELSE "out"
            /\ pc' = "idle"
       ELSE IF scope = "in" /\ result.err # "none"
       THEN /\ \E caught \in BOOLEAN : pc' = IF caught THEN "idle" ELSE "unwind"
            /\ UNCHANGED scope
       ELSE /\ pc' = "idle"
            /\ UNCHANGED scope
    /\ result' = NoResult
    /\ req' = NoArg
    /\ sent' = <<>>
    /\ resp' = NoDoc
    /\ nrec' = 0
    /\ oldMap' = <<>>
    /\ oldSock' = "new"
    /\ UNCHANGED <<sock, channel_map, data, pip, login, firstCmd, otherThanCli>>

Next ==
    \/ Return
    \/ Connect
    \/ Enter
    \/ Exit
    \/ Del
    \/ ConnectLogin
    \/ ConnectRefresh
    \/ Disconnect
    \/ UpdateChannelMap
    \/ DeviceInfo
    \/ StartJob
    \/ StopJob
    \/ GetStatus
    \/ InquireChannel
    \/ DownloadData
    \/ DownloadPage
    \/ DownloadReturn

Spec == Init /\ [][Next]_vars

\* --------------------------------------------------------------- command
\* command() byte by byte: the reply is body + termination, encoded, and it
\* reaches recv(2048) in chunks of any size.

MaxBody == 4   \* characters in a response body

termination == <<"\n", "\n", "#", "\r", "\n">>

RecvSize == 2048

\* The characters of a body: one letter, the characters of the terminator, and
\* one character that UTF-8 encodes in two bytes (C3 A9).
BodyChars == {"a", "\n", "#", "\r", "e'"}

Bodies == {b \in SeqsUpTo(BodyChars, MaxBody) : ~Contains(b, termination)}

\* str.encode(text, "utf-8")
RECURSIVE Encode(_)
Encode(text) ==
    IF text = <<>> THEN <<>>
    ELSE (IF Head(text) = "e'" THEN <<"C3", "A9">> ELSE <<Head(text)>>)
            \o Encode(Tail(text))

\* bytes.decode(): whether the bytes are whole characters, and the text
RECURSIVE Decodable(_)
Decodable(bytes) ==
    IF bytes = <<>> THEN TRUE
    ELSE IF Head(bytes) = "C3"
         THEN Len(bytes) >= 2 /\ bytes[2] = "A9" /\ Decodable(DropFirst(bytes, 2))
         ELSE Head(bytes) # "A9" /\ Decodable(Tail(bytes))

RECURSIVE Decode(_)
Decode(bytes) ==
    IF bytes = <<>> THEN <<>>
    ELSE IF Head(bytes) = "C3" THEN <<"e'">> \o Decode(DropFirst(bytes, 2))
         ELSE <<Head(bytes)>> \o Decode(Tail(bytes))

\* A connected client about to call command(); the instrument will answer
\* with some body.
InitCmd ==
    /\ sock = "connected"
    /\ channel_map = <<>>
    /\ pc = "idle"
    /\ data = <<>>
    /\ pip = <<>>
    /\ nrec = 0
    /\ sent = <<>>
    /\ result = NoResult
    /\ req = NoArg
    /\ resp = NoDoc
    /\ login = "none"
    /\ firstCmd = "none"
    /\ oldMap = <<>>
    /\ oldSock = "new"
    /\ scope = "out"
    /\ cpc = "start"
    /\ body \in Bodies
    /\ tosend = <<>>
    /\ peer = "open"
    /\ received = <<>>
    /\ cresult = <<>>
    /\ sawEof = FALSE
    /\ ncmd = 0
    /\ stale = 0
    /\ FnIdle
    /\ ConIdle

MaxCmds == 2   \* calls of command() the caller makes one after the other

\* line 127: the caller calls command(), for the first time or after the
\* previous call has returned or raised.  sendall writes the framed command
\* and the instrument answers it, after whatever it has sent already; a peer
\* that has closed its end answers nothing, a broken connection raises.
CmdSend ==
    /\ cpc \in {"start", "returned", "error"}
    /\ ncmd < MaxCmds
    /\ ncmd' = ncmd + 1
    /\ IF peer # "reset"
       THEN /\ cpc' = "loop"
            /\ tosend' = IF peer = "open"
                          THEN tosend \o Encode(body \o termination)
                          ELSE tosend
            /\ stale' = Len(tosend)
            /\ UNCHANGED cresult
       ELSE /\ cpc' = "error"
            /\ cresult' = <<"OSError">>
            /\ UNCHANGED <<tosend, stale>>
    /\ received' = <<>>
    /\ UNCHANGED <<body, peer, sawEof, otherThanCmd>>

\* lines 131-132: the terminator is not there yet; recv returns the next n
\* bytes, which are decoded on their own.
CmdRecv ==
    /\ cpc = "loop"
    /\ ~EndsWith(received, termination)
    /\ peer = "open"
    /\ \E n \in 1..Min(RecvSize, Len(tosend)) :
          LET chunk == TakeFirst(tosend, n)
          IN  /\ tosend' = DropFirst(tosend, n)
              /\ IF Decodable(chunk)
                 THEN /\ received' = received \o Decode(chunk)
                      /\ UNCHANGED <<cpc, cresult>>
                 ELSE /\ cpc' = "error"
                      /\ cresult' = <<"UnicodeDecodeError">>
                      /\ UNCHANGED received
    /\ UNCHANGED <<body, peer, sawEof, ncmd, stale, otherThanCmd>>

\* lines 131-132 on a stream the peer has closed: recv returns b"".
CmdRecvEof ==
    /\ cpc = "loop"
    /\ ~EndsWith(received, termination)
    /\ peer = "closed"
    /\ received' = received \o Decode(<<>>)
    /\ sawEof' = TRUE
    /\ UNCHANGED <<cpc, cresult, body, tosend, peer, ncmd, stale, otherThanCmd>>

\* lines 131-132 on a connection that was reset: recv raises.
CmdRecvFail ==
    /\ cpc = "loop"
    /\ ~EndsWith(received, termination)
    /\ peer = "reset"
    /\ cpc' = "error"
    /\ cresult' = <<"OSError">>
    /\ UNCHANGED <<received, body, tosend, peer, sawEof, ncmd, stale, otherThanCmd>>

\* lines 131 and 133: the text ends with the terminator
CmdReturn ==
    /\ cpc = "loop"
    /\ EndsWith(received, termination)
    /\ cpc' = "returned"
    /\ cresult' = TakeFirst(received, Len(received) - Len(termination))
    /\ UNCHANGED <<received, body, tosend, peer, sawEof, ncmd, stale, otherThanCmd>>

\* The instrument closes its end, or the connection breaks: what it had not
\* sent yet is never sent.
PeerCloses ==
    /\ peer = "open"
    /\ cpc \in {"start", "loop"}
    /\ \E how \in {"closed", "reset"} : peer' = how
    /\ tosend' = <<>>
    /\ UNCHANGED <<cpc, body, received, cresult, sawEof, ncmd, stale, otherThanCmd>>

NextCmd ==
    \/ CmdSend
    \/ CmdRecv
    \/ CmdRecvEof
    \/ CmdRecvFail
    \/ CmdReturn
    \/ PeerCloses

SpecCmd == InitCmd /\ [][NextCmd]_vars

\* -------------------------------------------------------- pure functions
\* _lod_to_dol and _auto_convert_type applied to arguments drawn from small
\* sets.

MaxLod == 3    \* records in one argument of _lod_to_dol

MaxText == 4   \* characters in one argument of _auto_convert_type

LodFields == {"a", "b"}

LodValues == {[t |-> "int", v |-> <<"1">>], PyNone}

\* Records over any of the fields, the empty record included.
LodRecords == UNION {[F -> LodValues] : F \in SUBSET LodFields}

LodArgs == SeqsUpTo(LodRecords, MaxLod)

\* A digit, the characters of the sentinel and of a decimal point, a letter,
\* a blank and an underscore; and the texts 42, abc and 1.2.3.
TextChars == {"1", "0", "-", ".", "a", " ", "_"}

TextArgs ==
    SeqsUpTo(TextChars, MaxText)
        \cup {<<"4", "2">>, <<"a", "b", "c">>, <<"1", ".", "2", ".", "3">>}

InitFn ==
    /\ sock = "new"
    /\ channel_map = <<>>
    /\ pc = "idle"
    /\ data = <<>>
    /\ pip = <<>>
    /\ nrec = 0
    /\ sent = <<>>
    /\ result = NoResult
    /\ req = NoArg
    /\ resp = NoDoc
    /\ login = "none"
    /\ firstCmd = "none"
    /\ oldMap = <<>>
    /\ oldSock = "new"
    /\ scope = "out"
    /\ CmdIdle
    /\ ConIdle
    /\ fnDone = FALSE
    /\ fnRet = <<>>
    /\ \/ /\ fnName = "_lod_to_dol"
          /\ fnArg \in LodArgs
          /\ fnText = <<>>
       \/ /\ fnName = "_auto_convert_type"
          /\ fnArg = <<>>
          /\ fnText \in TextArgs

\* _lod_to_dol(ld) is called
CallLodToDol ==
    /\ fnName = "_lod_to_dol"
    /\ ~fnDone
    /\ fnDone' = TRUE
    /\ fnRet' = lod_to_dol(fnArg)
    /\ UNCHANGED <<fnName, fnArg, fnText, cliVars, cmdVars, conVars>>

\* _auto_convert_type(value) is called
CallAutoConvertType ==
    /\ fnName = "_auto_convert_type"
    /\ ~fnDone
    /\ fnDone' = TRUE
    /\ fnRet' = auto_convert_type(fnText)
    /\ UNCHANGED <<fnName, fnArg, fnText, cliVars, cmdVars, conVars>>

NextFn ==
    \/ CallLodToDol
    \/ CallAutoConvertType

SpecFn == InitFn /\ [][NextFn]_vars

\* ------------------------------------------------------ concurrent callers
\* Two callers run command() on one connected client at the same time.  Each
\* has its own local received; the socket, and so the stream of replies, is
\* the one of the client.  The instrument answers the commands in the order
\* they reach it, caller t's command with Reply(t).

Callers == {1, 2}

Reply(t) == IF t = 1 THEN <<"a">> ELSE <<"b">>

InitConc ==
    /\ sock = "connected"
    /\ channel_map = <<>>
    /\ pc = "idle"
    /\ data = <<>>
    /\ pip = <<>>
    /\ nrec = 0
    /\ sent = <<>>
    /\ result = NoResult
    /\ req = NoArg
    /\ resp = NoDoc
    /\ login = "none"
    /\ firstCmd = "none"
    /\ oldMap = <<>>
    /\ oldSock = "new"
    /\ scope = "out"
    /\ CmdIdle
    /\ FnIdle
    /\ tpc = [t \in Callers |-> "start"]
    /\ trecv = [t \in Callers |-> <<>>]
    /\ tret = [t \in Callers |-> <<>>]
    /\ wire = <<>>
    /\ overlap = FALSE

\* command() takes no lock and waits for nobody before it writes.
MutLocked(t) == \A u \in Callers \ {t} : tpc[u] # "loop"

MaySend(t) == TRUE

\* lines 127-130, caller t: sendall of its command, which the instrument
\* answers after what it has answered already.
ConSend(t) ==
    /\ tpc[t] = "start"
    /\ MaySend(t)
    /\ tpc' = [tpc EXCEPT ![t] = "loop"]
    /\ trecv' = [trecv EXCEPT ![t] = <<>>]
    /\ wire' = wire \o Encode(Reply(t) \o termination)
    /\ overlap' = (overlap \/ \E u \in Callers \ {t} : tpc[u] = "loop")
    /\ UNCHANGED <<tret, cliVars, cmdVars, fnVars>>

\* lines 131-132, caller t: recv takes the next bytes of the stream, whose
\* reply they may be.
ConRecv(t) ==
    /\ tpc[t] = "loop"
    /\ ~EndsWith(trecv[t], termination)
    /\ \E n \in 1..Min(RecvSize, Len(wire)) :
          LET chunk == TakeFirst(wire, n)
          IN  /\ wire' = DropFirst(wire, n)
              /\ IF Decodable(chunk)
                 THEN /\ trecv' = [trecv EXCEPT ![t] = trecv[t] \o Decode(chunk)]
                      /\ UNCHANGED <<tpc, tret>>
                 ELSE /\ tpc' = [tpc EXCEPT ![t] = "error"]
                      /\ tret' = [tret EXCEPT ![t] = <<"UnicodeDecodeError">>]
                      /\ UNCHANGED trecv
    /\ UNCHANGED <<overlap, cliVars, cmdVars, fnVars>>

\* lines 131 and 133, caller t
ConReturn(t) ==
    /\ tpc[t] = "loop"
    /\ EndsWith(trecv[t], termination)
    /\ tpc' = [tpc EXCEPT ![t] = "returned"]
    /\ tret' = [tret EXCEPT ![t] =
                   TakeFirst(trecv[t], Len(trecv[t]) - Len(termination))]
    /\ UNCHANGED <<trecv, wire, overlap, cliVars, cmdVars, fnVars>>

NextConc ==
    \/ \E t \in Callers : ConSend(t)
    \/ \E t \in Callers : ConRecv(t)
    \/ \E t \in Callers : ConReturn(t)

SpecConc == InitConc /\ [][NextConc]_vars

\* ----------------------------------------------------------------- claims

\* C1: when the instrument delivers body + terminator, however the stream
\* splits it into reads, command raises nothing, returns exactly the body and
\* leaves no byte of the response unread.
C1_ReturnsBody ==
    peer = "open" =>
        /\ cpc # "error"
        /\ cpc = "returned" => (cresult = body /\ tosend = <<>>)

\* C2: once a read has met the closed stream before the terminator came,
\* command has stopped reading and raised.
C2_ClosedStreamSurfaces == sawEof => cpc = "error"

Downloading == result.op = "download_data" /\ pc \in {"download", "done", "hung"}

\* C3: download_data issues no download command after the first page that
\* came back shorter than a full page (with n records stored, that is page
\* n div 1000 + 1).
C3_StopsAfterShortPage ==
    Downloading => Len(sent) <= (nrec \div chunk_size) + 1

\* C4: the download commands ask for 1000 records each, from 1, 1001, 2001,
\* ... in turn; and with 2500 records stored download_data returns after
\* exactly 3 of them a table whose columns hold the 2500 records in order.
C4_ContiguousPages ==
    Downloading =>
        /\ \A i \in 1..Len(sent) :
              /\ sent[i].startpos = (i - 1) * chunk_size + 1
              /\ sent[i].count = chunk_size
        /\ (pc = "done" /\ result.err = "none" /\ nrec = 2500) =>
              /\ Len(sent) = 3
              /\ \A f \in DOMAIN result.val : Len(result.val[f]) = 2500
              /\ \A i \in 1..2500 :
                    result.val["seq"][i] = [t |-> "int", v |-> IntToText(i)]

Queried == pc = "done" /\ result.op \in {"get_status", "inquire_channel"}

\* The identifier an address of a command stands for
AddressId(a) == a.devid \o <<"-">> \o a.subdevid \o <<"-">> \o a.chlid

\* C5: when get_status or inquire_channel has read a response with a record
\* list, then either the list has as many records as pipelines were queried
\* and the Nth result is stored under the Nth queried pipeline's identifier
\* and carries the Nth record's own fields, or the operation raised and
\* returned nothing.
C5_PositionalMerge ==
    (Queried /\ sent # <<>> /\ resp.wf /\ "list" \in DOMAIN resp.lists) =>
        LET q == sent[1].entries
            els == resp.lists["list"]
        IN  IF Len(els) # Len(q)
            THEN result.err = "ValueError" /\ result.val = NoVal
            ELSE /\ result.err = "none"
                 /\ Len(result.val) = Len(q)
                 /\ \A n \in 1..Len(q) :
                       /\ result.val[n].k = AddressId(q[n])
                       /\ \A f \in DOMAIN els[n].attrib \ (StopFields \cup {els[n].tag}) :
                             result.val[n].v[f] = auto_convert_type(els[n].attrib[f])
                       /\ (els[n].text # <<>> /\ els[n].tag \notin StopFields) =>
                             result.val[n].v[els[n].tag] = auto_convert_type(els[n].text)

\* C5, its case: two pipelines queried, one record answered.
C5_Witness ==
    /\ Queried
    /\ sent # <<>>
    /\ Len(sent[1].entries) = 2
    /\ resp.wf
    /\ "list" \in DOMAIN resp.lists
    /\ Len(resp.lists["list"]) = 1
    /\ result.err = "ValueError"

\* C6: in every result of get_status and inquire_channel, each field of the
\* pipeline's descriptor has the descriptor's value, and each field only the
\* response record has keeps the record's value.
C6_DescriptorWins ==
    (Queried /\ result.err = "none") =>
        \A n \in 1..Len(result.val) :
            LET e == result.val[n]
                d == Get(channel_map, e.k)
                r == xml_to_records(resp, "list").recs[n]
            IN  /\ DOMAIN e.v = DOMAIN d \cup DOMAIN r
                /\ \A f \in DOMAIN d : e.v[f] = d[f]
                /\ \A f \in DOMAIN r \ DOMAIN d : e.v[f] = r[f]

\* C6, its case: the record says subdevid 1 of a pipeline whose descriptor
\* says 5.
C6_Witness ==
    /\ Queried
    /\ result.err = "none"
    /\ \E n \in 1..Len(result.val) :
          /\ Get(channel_map, result.val[n].k)["subdevid"].v = <<"5">>
          /\ xml_to_records(resp, "list").recs[n]["subdevid"].v = <<"1">>

PipelineOps ==
    {"start_job", "stop_job", "get_status", "inquire_channel", "download_data"}

\* C7: a pipeline operation asked for an identifier that is not in the
\* channel map has raised KeyError and has written no command.
C7_UnknownIdSendsNothing ==
    (/\ result.op \in PipelineOps
     /\ pc # "idle"
     /\ \E i \in 1..Len(req.ids) : ~HasKey(channel_map, req.ids[i])) =>
        /\ pc = "done"
        /\ result.err = "KeyError"
        /\ sent = <<>>

\* C7, its case: a batch of a known and an unknown identifier on a connected
\* client.
C7_Witness ==
    /\ pc = "done"
    /\ sock = "connected"
    /\ result.op = "stop_job"
    /\ Len(req.ids) = 2
    /\ HasKey(channel_map, req.ids[1])
    /\ ~HasKey(channel_map, req.ids[2])

\* C8: every key of the channel map is "{devid}-{subdevid}-{Channelid}" of the
\* descriptor stored under it.
C8_KeysDerived ==
    \A i \in 1..Len(channel_map) :
        LET d == channel_map[i].v
        IN  /\ KeyFields \subseteq DOMAIN d
            /\ channel_map[i].k =
                  PyStr(d["devid"]) \o <<"-">> \o PyStr(d["subdevid"]) \o <<"-">>
                      \o PyStr(d["Channelid"])

\* C8, its case: a map of two channels that a failed refresh has left behind.
C8_Witness ==
    /\ pc = "done"
    /\ result.op = "update_channel_map"
    /\ result.err # "none"
    /\ Len(channel_map) = 2

RefreshOps == {"connect", "update_channel_map"}

\* The map m holds exactly the channels of the enumeration records recs: one
\* entry per key, the last record of that key.
ExactlyEnumerated(m, recs) ==
    /\ \A i, j \in 1..Len(m) : m[i].k = m[j].k => i = j
    /\ \A i \in 1..Len(recs) : HasKey(m, AddressId([devid |-> recs[i]["devid"].v,
                                                    subdevid |-> recs[i]["subdevid"].v,
                                                    chlid |-> recs[i]["Channelid"].v]))
    /\ \A i \in 1..Len(m) :
          \E j \in 1..Len(recs) :
              /\ m[i].v = recs[j]
              /\ \A l \in (j + 1)..Len(recs) :
                    AddressId([devid |-> recs[l]["devid"].v,
                               subdevid |-> recs[l]["subdevid"].v,
                               chlid |-> recs[l]["Channelid"].v]) # m[i].k

\* C9: the channel map is empty at construction, and a step changes it only
\* by ending a successful refresh, after which it holds exactly the channels
\* of the enumeration response just read; every other step, a failed refresh
\* included, leaves it as it was.
C9_WholesaleReplace ==
    /\ channel_map = <<>>
    /\ [][IF pc' = "done" /\ result'.op \in RefreshOps /\ result'.err = "none"
          THEN ExactlyEnumerated(channel_map',
                                 xml_to_records(resp', "middle").recs)
          ELSE channel_map' = channel_map]_vars

\* C9, its case: a successful refresh after which a channel of the previous
\* map is gone.
C9_Witness ==
    /\ pc = "done"
    /\ result.op = "update_channel_map"
    /\ result.err = "none"
    /\ \E k \in Keys(oldMap) : ~HasKey(channel_map, k)

\* C10: the first command on the connection is the login, and any other
\* command is written only once the login has succeeded.
C10_LoginFirstAndAccepted ==
    /\ firstCmd \in {"none", "connect"}
    /\ (\E i \in 1..Len(sent) : sent[i].cmd # "connect") => login = "accepted"

Closings == {"disconnect", "__del__"}

\* C11: disconnect (and __del__, which calls it) raises nothing and leaves
\* the socket closed, whether the socket was never connected, connected or
\* closed already; it writes nothing and leaves the channel map alone, and on
\* a closed socket it changes nothing.
C11_DisconnectIdempotent ==
    (pc \in {"done", "deleted"} /\ result.op \in Closings) =>
        /\ result.err = "none"
        /\ sock = "closed"
        /\ sent = <<>>
        /\ channel_map = oldMap
        /\ oldSock = "closed" => sock = oldSock

\* C11, its case: disconnect called on a client that was disconnected already.
C11_Witness ==
    /\ pc = "done"
    /\ result.op = "disconnect"
    /\ oldSock = "closed"
    /\ result.err = "none"

\* C12: when __enter__ returns, connect has run to its end on a connected
\* socket; the body of the with statement is left only through __exit__,
\* and once it is left, by an exception or not, the socket is closed.
C12_ScopeReleases ==
    /\ [](/\ (scope = "entering" /\ pc = "done" /\ result.err = "none") =>
               (sock = "connected" /\ sent = <<ConnectCmd, DevInfoCmd>>)
          /\ scope = "exited" => sock = "closed"
          /\ pc = "unwind" => scope = "in")
    /\ [][scope = "in" => scope' \in {"in", "exited"}]_vars

\* C12, its case: an exception has left the body, __exit__ has run.
C12_Witness ==
    /\ pc = "done"
    /\ result.op = "__exit__"
    /\ req.kind = "exc"
    /\ oldSock = "connected"
    /\ sock = "closed"

\* C13: whenever the caller writes a command, every byte of the responses to
\* the commands written before has been read.
C13_OneOutstanding == stale = 0

\* C14: nothing in command() holds a caller back while another caller is
\* between its write and its return; and a caller returns a text that is not
\* the reply to its own command only when the two exchanges overlapped.
C14_NothingSerializes ==
    /\ \A t \in Callers : tpc[t] = "start" => ENABLED ConSend(t)
    /\ \A t \in Callers :
          (tpc[t] = "returned" /\ tret[t] # Reply(t)) => overlap

\* C14, its case: a caller has returned a text that is not its reply.
C14_Witness ==
    \E t \in Callers : tpc[t] = "returned" /\ tret[t] # Reply(t)

MultiStepOps == {"connect", "download_data"}

\* C15: a connect or download_data that has met a failure is over, has raised
\* the error to its caller and has returned nothing.
C15_FailsAsWhole ==
    (result.op \in MultiStepOps /\ result.err \notin {"none", "running"}) =>
        /\ pc = "done"
        /\ result.val = NoVal

\* C16: for a non-empty list of records that all have the fields of the
\* first, _lod_to_dol returns a table with exactly these fields as keys, each
\* column as long as the list and holding record i's value at place i; when
\* a record lacks a field of the first, it raises KeyError.
C16_ColumnarConversion ==
    (fnName = "_lod_to_dol" /\ fnDone /\ fnArg # <<>>) =>
        LET F == DOMAIN fnArg[1]
            N == Len(fnArg)
        IN  IF \A i \in 1..N : DOMAIN fnArg[i] = F
            THEN /\ fnRet.err = "none"
                 /\ DOMAIN fnRet.table = F
                 /\ \A f \in F :
                       /\ Len(fnRet.table[f]) = N
                       /\ \A i \in 1..N : fnRet.table[f][i] = fnArg[i][f]
            ELSE (\E i \in 1..N : \E f \in F : f \notin DOMAIN fnArg[i]) =>
                    /\ fnRet.err = "KeyError"
                    /\ fnRet.table = <<>>

\* C16, its case: records of two fields whose values differ from one record
\* to the next.
C16_Witness ==
    /\ fnName = "_lod_to_dol"
    /\ fnDone
    /\ Len(fnArg) >= 2
    /\ \A i \in 1..Len(fnArg) : DOMAIN fnArg[i] = LodFields
    /\ fnArg[1]["a"] # fnArg[2]["a"]
    /\ fnRet.err = "none"

\* C17: a stop_job of resolvable identifiers on a connected client has
\* written exactly one command, a stop whose count is the number of
\* identifiers given and whose Nth entry carries ip, devtype, devid, subdevid
\* and Channelid of the Nth identifier's descriptor; a string is a batch of
\* one.
C17_StopBatch ==
    (/\ pc = "done"
     /\ result.op = "stop_job"
     /\ sock = "connected"
     /\ \A i \in 1..Len(req.ids) :
           Resolve(channel_map, req.ids[i], StopFields).err = "none") =>
        /\ Len(sent) = 1
        /\ sent[1].cmd = "stop"
        /\ sent[1].count = Len(req.ids)
        /\ req.kind = "str" => sent[1].count = 1
        /\ Len(sent[1].entries) = Len(req.ids)
        /\ \A i \in 1..Len(req.ids) :
              LET d == Get(channel_map, req.ids[i])
              IN  sent[1].entries[i] =
                      [ip |-> d["ip"].v, devtype |-> d["devtype"].v,
                       devid |-> d["devid"].v, subdevid |-> d["subdevid"].v,
                       chlid |-> d["Channelid"].v]

\* C17, its case: a batch of two different pipelines.
C17_Witness ==
    /\ pc = "done"
    /\ result.op = "stop_job"
    /\ req.kind = "list"
    /\ Len(req.ids) = 2
    /\ req.ids[1] # req.ids[2]
    /\ Len(sent) = 1
    /\ sent[1].entries[1] # sent[1].entries[2]

\* C18: _auto_convert_type raises nothing; it returns None exactly for "--";
\* a text with a decimal point gives a float or itself, a text without gives
\* an int or itself; it gives the text itself, unchanged, exactly when the
\* one parse attempted fails; 42 gives the int 42, abc and 1.2.3 themselves.
C18_CoercionTotal ==
    (fnName = "_auto_convert_type" /\ fnDone) =>
        /\ fnRet.t \in {"none", "int", "float", "str"}
        /\ fnRet.t = "none" <=> fnText = <<"-", "-">>
        /\ fnRet.t = "float" => Contains(fnText, <<".">>)
        /\ fnRet.t = "int" => ~Contains(fnText, <<".">>)
        /\ fnRet.t = "str" => fnRet.v = fnText
        /\ fnRet.t = "str" <=>
              /\ fnText # <<"-", "-">>
              /\ IF Contains(fnText, <<".">>) THEN ~FloatLiteral(fnText)
                                               ELSE ~IntLiteral(fnText)
        /\ fnText = <<"4", "2">> => fnRet = [t |-> "int", v |-> <<"4", "2">>]
        /\ fnText = <<"a", "b", "c">> => fnRet = PyStrVal(fnText)
        /\ fnText = <<"1", ".", "2", ".", "3">> => fnRet = PyStrVal(fnText)

\* C18, its case: a text with a decimal point that is no float literal.
C18_Witness ==
    /\ fnName = "_auto_convert_type"
    /\ fnDone
    /\ fnText = <<"1", ".", "2", ".", "3">>
    /\ fnRet.t = "str"

\* C19: a step of any operation other than connect and update_channel_map
\* leaves the channel map, keys and descriptors, as it was.
C19_MapOnlyByRefresh ==
    [][result'.op \notin RefreshOps => channel_map' = channel_map]_vars

\* C19, its case: get_status has returned records that carry fields the
\* descriptors of the map do not have.
C19_Witness ==
    /\ Queried
    /\ result.err = "none"
    /\ channel_map = oldMap
    /\ \E n \in 1..Len(result.val) :
          DOMAIN result.val[n].v # DOMAIN Get(channel_map, result.val[n].k)

TransportOps == {"connect", "update_channel_map", "device_info"}

\* C20: once the socket is closed it stays closed; every step from then on
\* writes no command and leaves the channel map as it was, and a connect, an
\* enumeration or a pipeline operation that has got as far as its command
\* ends with OSError.
C20_ClosedAbsorbing ==
    [][sock = "closed" =>
          /\ sock' = "closed"
          /\ channel_map' = channel_map
          /\ sent' = <<>>
          /\ (pc' = "done" /\ result'.op \in TransportOps) =>
                result'.err = "OSError"
          /\ (pc' = "done" /\ result'.op \in PipelineOps) =>
                result'.err \in {"OSError", "KeyError"}]_vars

\* C20, its case: connect on a client that was connected, holds a channel
\* map and was disconnected.
C20_Witness ==
    /\ pc = "done"
    /\ result.op = "connect"
    /\ oldSock = "closed"
    /\ result.err = "OSError"
    /\ Len(channel_map) > 0

====
